---- MODULE Spec2Model ----
(***************************************************************************)
(* Model of the shop-ai-chatbot backend: the Express routes of             *)
(* backend/src/index.ts, the rate limiter, the conversation store          *)
(* service, the LLM configuration, the two provider clients and            *)
(* generateReply; the start of the process (imports, dotenv.config()); and *)
(* the browser page of frontend/src/routes/+page.svelte.                   *)
(*                                                                         *)
(* Node runs one handler segment at a time, so an action is the code that  *)
(* runs between two awaits: a store operation or a provider call takes     *)
(* effect in one step and the code after it runs up to the next await.     *)
(*                                                                         *)
(* A string is a sequence of symbols.  The symbol " " is white space, any  *)
(* other symbol is a non-blank piece of text (a character, or a fixed      *)
(* text such as a fallback reply taken as one piece).                      *)
(***************************************************************************)
EXTENDS Integers, Sequences, FiniteSets, TLC

VARIABLES
    provider,       \* LLM_CONFIG.provider, resolved when the module loads
    env,            \* process.env: the two API keys
    hits,           \* rate limiter: requests counted per IP in its window
    admitted,       \* per IP, requests of the window handed to the handler
    conversations,  \* Conversation rows (their ids)
    messages,       \* Message rows in creation order
    issued,         \* session ids that 200 responses have returned
    pc,             \* per request slot: the await the handler is parked at
    request,        \* per slot: ip, body.message, body.sessionId
    conversation,   \* per slot: result of getOrCreateConversation
    gen,            \* per slot: the activation of generateReply
    aiReply,        \* per slot: the handler's aiReply
    response,       \* per slot: the response sent
    effects,        \* per slot: what the request did to the store so far
    reads,          \* the GET /chat/history request in progress, if any
    boot,           \* the start of the process: how far index.ts has run
    tally,          \* per conversation id: the 200 responses given for it
    browser         \* the browser page: the state of +page.svelte

vars == <<provider, env, hits, admitted, conversations, messages, issued,
          pc, request, conversation, gen, aiReply, response, effects, reads,
          boot, tally, browser>>

storeVars == <<conversations, messages>>
configVars == <<provider, env, boot>>
serverVars == <<configVars, hits, admitted, storeVars, issued, pc, request,
                conversation, gen, aiReply, response, effects, reads, tally>>

-----------------------------------------------------------------------------
(* Bounds of the model *)

\* requests in flight at once, Message and Conversation rows, requests one IP
\* sends in one window of the limiter
MaxInFlight == 2
MaxMessages == 4
MaxConversations == 2
MaxHits == 2

\* the same for the runs of one request at a time
MaxReplyMessages == 2
MaxReplyConversations == 1

\* Message rows for the runs about the store's clock
MaxStoreMessages == 4

\* messages the page sends
MaxSends == 3

\* requests one IP sends in one window, for the runs about the limiter
MaxBurst == 12

\* entries of a history and retries handed to generateReply called on its own
MaxHistory == 11
MaxRetries == 3

Reqs == 1..MaxInFlight
IPs == {"ip1", "ip2"}

-----------------------------------------------------------------------------
(* Strings *)

Rep(c, n) == [i \in 1..n |-> c]

IsSpace(c) == c = " "

RECURSIVE TrimStart(_)
TrimStart(s) ==
    IF s = <<>> THEN s
    ELSE IF IsSpace(Head(s)) THEN TrimStart(Tail(s)) ELSE s

RECURSIVE TrimEnd(_)
TrimEnd(s) ==
    IF s = <<>> THEN s
    ELSE IF IsSpace(s[Len(s)]) THEN TrimEnd(SubSeq(s, 1, Len(s) - 1)) ELSE s

\* String.prototype.trim
Trim(s) == TrimEnd(TrimStart(s))

\* String.prototype.includes, for a piece that is one symbol of the string
Includes(s, piece) == \E i \in DOMAIN s : s[i] = piece

\* slice(0, n) where slice(-n) is meant: the first n entries
SliceLast_TakesFirst(s, n) == IF Len(s) <= n THEN s ELSE SubSeq(s, 1, n)

\* Array.prototype.slice(-n), n > 0
SliceLast(s, n) == IF Len(s) <= n THEN s ELSE SubSeq(s, Len(s) - n + 1, Len(s))

-----------------------------------------------------------------------------
(* LLM configuration: services/llm/config.ts *)

MAX_CONTEXT_MESSAGES == 10
MAX_TOKENS == 200

DefaultProvider == "groq"

DefaultModel(p) ==
    IF p = "groq" THEN "llama-3.1-8b-instant" ELSE "gpt-3.5-turbo"

\* values LLM_PROVIDER takes; the type cast does not check the value
ProviderNames == {"groq", "openai", "claude"}

\* an unset environment variable
Unset == <<"undefined">>

GroqPlaceholder == <<"your-groq-api-key-here">>
OpenAIPlaceholder == <<"your-openai-api-key-here">>

KeyValues ==
    {Unset, <<>>, <<" ">>, GroqPlaceholder, OpenAIPlaceholder, <<"k", "1">>}

\* validateGroqConfig without the apiKey.trim() === '' test
GroqConfigMissing_NoTrim(e) ==
    LET apiKey == e.GROQ_API_KEY
    IN  apiKey = Unset \/ apiKey = <<>> \/ apiKey = GroqPlaceholder

\* validateGroqConfig: TRUE when it throws
GroqConfigMissing(e) ==
    LET apiKey == e.GROQ_API_KEY
    IN  apiKey = Unset \/ apiKey = <<>> \/ apiKey = GroqPlaceholder
        \/ Trim(apiKey) = <<>>

\* validateOpenAIConfig: TRUE when it throws
OpenAIConfigMissing(e) ==
    LET apiKey == e.OPENAI_API_KEY
    IN  apiKey = Unset \/ apiKey = <<>> \/ apiKey = OpenAIPlaceholder
        \/ Trim(apiKey) = <<>>

-----------------------------------------------------------------------------
(* Errors.  message is the text in pieces; 0 is an absent status field. *)

Err(message, status, statusCode, responseStatus) ==
    [message |-> message, status |-> status, statusCode |-> statusCode,
     responseStatus |-> responseStatus]

NoError == Err(<<>>, 0, 0, 0)

GroqKeyError ==
    Err(<<"GROQ_", "API_KEY", " is ", "not configured",
          ". Please set it in your .env file.">>, 0, 0, 0)

OpenAIKeyError ==
    Err(<<"OPENAI_", "API_KEY", " is ", "not configured",
          ". Please set it in your .env file.">>, 0, 0, 0)

UnsupportedProviderError(p) ==
    Err(<<"Unsupported LLM provider: ", p,
          ". Supported providers: groq, openai">>, 0, 0, 0)

RetriesExhaustedError == Err(<<"Failed to generate reply after retries">>, 0, 0, 0)

NoResponseError(client) ==
    IF client = "groq" THEN Err(<<"No response from Groq">>, 0, 0, 0)
    ELSE Err(<<"No response from OpenAI">>, 0, 0, 0)

\* what the SDK call of a provider client may throw
ProviderErrors ==
    { Err(<<"401 Invalid API Key">>, 401, 0, 0),
      Err(<<"401 Incorrect API key provided: YOUR_", "API_KEY">>, 401, 0, 0),
      Err(<<"429 Rate limit reached">>, 429, 0, 0),
      Err(<<"Too Many Requests">>, 0, 0, 429),
      Err(<<"500 Internal Server Error">>, 0, 500, 0),
      Err(<<"Connection error.">>, 0, 0, 0) }

\* completion.choices[0]?.message?.content of a completion that arrives
Contents == { Unset, <<>>, <<" ">>, <<" ", "o", "k", " ">> }

\* what one SDK call does: it resolves with a completion or it throws
Completed(content) == [ok |-> TRUE, content |-> content, error |-> NoError]
Thrown(e) == [ok |-> FALSE, content |-> <<>>, error |-> e]

Outcomes == {Completed(c) : c \in Contents} \cup {Thrown(e) : e \in ProviderErrors}

-----------------------------------------------------------------------------
(* Provider clients: services/llm/providers/groq.ts and openai.ts.  The     *)
(* result of generateWithGroq / generateWithOpenAI for one outcome of the   *)
(* SDK call: it returns the trimmed text or throws.                        *)

Returns(text) == [ok |-> TRUE, text |-> text, error |-> NoError]
Throws(e) == [ok |-> FALSE, text |-> <<>>, error |-> e]

\* !reply
IsFalsy(reply) == reply = Unset \/ reply = <<>>

generateWithGroq(outcome) ==
    IF ~outcome.ok THEN Throws(outcome.error)
    ELSE IF IsFalsy(outcome.content) THEN Throws(NoResponseError("groq"))
    ELSE Returns(Trim(outcome.content))

generateWithOpenAI(outcome) ==
    IF ~outcome.ok THEN Throws(outcome.error)
    ELSE IF IsFalsy(outcome.content) THEN Throws(NoResponseError("openai"))
    ELSE Returns(Trim(outcome.content))

-----------------------------------------------------------------------------
(* generateReply: services/llm.ts *)

SYSTEM_PROMPT == <<"SYSTEM_PROMPT">>

DefaultRetries == 2

\* a mapping that hands the sender on as the role
RoleOf_Keeps(sender) == sender

RoleOf(sender) == IF sender = "user" THEN "user" ELSE "assistant"

\* the messages array built before the retry loop
BuildMessages(conversationHistory, userMessage) ==
    LET recentHistory == SliceLast(conversationHistory, MAX_CONTEXT_MESSAGES)
    IN  <<[role |-> "system", content |-> SYSTEM_PROMPT]>>
        \o [i \in 1..Len(recentHistory) |->
              [role |-> RoleOf(recentHistory[i].sender),
               content |-> recentHistory[i].text]]
        \o <<[role |-> "user", content |-> userMessage]>>

\* error?.status || error?.statusCode || error?.response?.status
StatusCodeOf(e) ==
    IF e.status # 0 THEN e.status
    ELSE IF e.statusCode # 0 THEN e.statusCode
    ELSE e.responseStatus

\* a retry on any failure while attempts remain
ShouldRetry_AnyFailure(statusCode, attempt, retries) == attempt < retries

\* statusCode === 429 && attempt < retries
ShouldRetry(statusCode, attempt, retries) == statusCode = 429 /\ attempt < retries

\* a backoff that grows by one second per attempt
WaitTime_Linear(attempt) == (attempt + 1) * 1000

\* Math.pow(2, attempt) * 1000
WaitTime(attempt) == (2 ^ attempt) * 1000

\* a catch that rethrows the error as it came
Annotate_Nothing(e, statusCode) == e

\* if (statusCode) { error.status = statusCode; error.statusCode = statusCode }
Annotate(e, statusCode) ==
    IF statusCode # 0
    THEN [e EXCEPT !.status = statusCode, !.statusCode = statusCode]
    ELSE e

\* console.error(`... API Error Details:`, { message, status, attempt, provider })
ErrorDetails(e, statusCode, attempt, p) ==
    [message |-> e.message, status |-> statusCode, attempt |-> attempt + 1,
     provider |-> p]

\* the client the retry loop calls: groq, and openai in the else branch
ClientOf(p) == IF p = "groq" THEN "groq" ELSE "openai"

NoGen ==
    [state |-> "none", history |-> <<>>, userMessage |-> <<>>, retries |-> 0,
     messages |-> <<>>, attempt |-> 0, validations |-> 0, sent |-> <<>>,
     log |-> <<>>, waits |-> <<>>, console |-> <<>>, result |-> <<>>,
     error |-> NoError]

\* one call of a provider client, as the client receives it
CallOf(p, msgs) ==
    [client |-> ClientOf(p), messages |-> msgs, maxTokens |-> MAX_TOKENS,
     model |-> DefaultModel(p)]

\* the head of the retry loop: attempt <= retries, then the client call
LoopHead(g, p) ==
    IF g.attempt <= g.retries
    THEN [g EXCEPT !.state = "calling",
                   !.sent = Append(g.sent, CallOf(p, g.messages))]
    ELSE [g EXCEPT !.state = "threw", !.error = RetriesExhaustedError]

\* TRUE when the validation of the provider's configuration throws
ConfigMissing(p, e) ==
    IF p = "groq" THEN GroqConfigMissing(e) ELSE OpenAIConfigMissing(e)

ConfigError(p) == IF p = "groq" THEN GroqKeyError ELSE OpenAIKeyError

\* a validation whose else branch takes any other provider for openai
GenStart_ElseOpenAI(p, e, conversationHistory, userMessage, retries) ==
    LET g0 == [NoGen EXCEPT !.history = conversationHistory,
                            !.userMessage = userMessage,
                            !.retries = retries]
    IN  IF ConfigMissing(p, e)
        THEN [g0 EXCEPT !.state = "threw", !.validations = 1,
                        !.error = ConfigError(p)]
        ELSE LoopHead([g0 EXCEPT !.validations = 1,
                                 !.messages = BuildMessages(conversationHistory,
                                                            userMessage)], p)

\* generateReply from its entry to its first await (or its throw)
GenStart(p, e, conversationHistory, userMessage, retries) ==
    LET g0 == [NoGen EXCEPT !.history = conversationHistory,
                            !.userMessage = userMessage,
                            !.retries = retries]
    IN  IF p \notin {"groq", "openai"}
        THEN [g0 EXCEPT !.state = "threw", !.error = UnsupportedProviderError(p)]
        ELSE IF ConfigMissing(p, e)
        THEN [g0 EXCEPT !.state = "threw", !.validations = 1,
                        !.error = ConfigError(p)]
        ELSE LoopHead([g0 EXCEPT !.validations = 1,
                                 !.messages = BuildMessages(conversationHistory,
                                                            userMessage)], p)

\* generateReply from the settling of a client call to its next await
GenAfterCall(g, p, outcome) ==
    LET res == IF p = "groq" THEN generateWithGroq(outcome)
               ELSE generateWithOpenAI(outcome)
        statusCode == StatusCodeOf(res.error)
        g1 == [g EXCEPT !.log = Append(g.log, outcome)]
    IN  IF res.ok
        THEN [g1 EXCEPT !.state = "returned", !.result = res.text]
        ELSE IF ShouldRetry(statusCode, g.attempt, g.retries)
        THEN [g1 EXCEPT !.state = "sleeping",
                        !.waits = Append(g.waits, WaitTime(g.attempt))]
        ELSE [g1 EXCEPT !.state = "threw",
                        !.console = Append(g.console,
                                           ErrorDetails(res.error, statusCode,
                                                        g.attempt, p)),
                        !.error = Annotate(res.error, statusCode)]

\* generateReply from the end of a sleep to its next await
GenAfterSleep(g, p) == LoopHead([g EXCEPT !.attempt = g.attempt + 1], p)

\* a provider call of slot r settles
ProviderRespond(r, outcome) ==
    /\ gen[r].state = "calling"
    /\ gen' = [gen EXCEPT ![r] = GenAfterCall(gen[r], provider, outcome)]
    /\ UNCHANGED <<configVars, tally, browser, reads, hits, admitted, storeVars, issued, pc, request,
                   conversation, aiReply, response, effects>>

\* the backoff sleep of slot r ends: the next provider call begins
Wake(r) ==
    /\ gen[r].state = "sleeping"
    /\ gen' = [gen EXCEPT ![r] = GenAfterSleep(gen[r], provider)]
    /\ effects' = [effects EXCEPT ![r].rowSinceCall = FALSE]
    /\ UNCHANGED <<configVars, tally, browser, reads, hits, admitted, storeVars, issued, pc, request,
                   conversation, aiReply, response>>

-----------------------------------------------------------------------------
(* Rate limiter: middleware/rateLimit.ts *)

RATE_MAX == 10

\* a limiter that lets one request more through
OverLimit_OneMore(count) == count > RATE_MAX + 1

\* the count of a request, the request included, is over the limit
OverLimit(count) == count > RATE_MAX

RateLimitBody ==
    [error |-> <<"Too many requests, please try again later.">>,
     reply |-> <<"I'm receiving too many messages right now. Please wait a moment and try again.">>]

-----------------------------------------------------------------------------
(* Conversation store: services/conversation.ts *)

\* a session id that is null, undefined or the empty string
NoSid == 0
\* a well-formed session id (a UUID) no conversation has
UnknownSid == -1
\* a session id that is a string but not a UUID
MalformedSid == -2

NoConversation == [id |-> NoSid, messages |-> <<>>]

\* where: { conversationId }, in creation order
MessagesOf(id) == SelectSeq(messages, LAMBDA m : m.conversationId = id)

\* the 200 responses given so far for the conversation id
Count200(id) == IF id \in DOMAIN tally THEN tally[id] ELSE 0

\* tally after one more 200 response for the conversation id
Tallied(id) ==
    [i \in DOMAIN tally \cup {id} |-> IF i = id THEN Count200(i) + 1 ELSE Count200(i)]

\* the id of the next Conversation row
FreshId == Cardinality(conversations) + 1

\* a lookup that never finds the row
Found_Never(sessionId) == FALSE

\* prisma.conversation.findUnique finds a row
Found(sessionId) == sessionId \in conversations

\* a Message row; createdAt DateTime @default(now())
Row(conversationId, sender, text, createdAt) ==
    [conversationId |-> conversationId, sender |-> sender, text |-> text,
     createdAt |-> createdAt]

\* the reading of the store's clock when the latest row was created
Now == IF messages = <<>> THEN 0 ELSE messages[Len(messages)].createdAt

\* the places in messages of the rows of a conversation
PlacesOf(id) == {i \in DOMAIN messages : messages[i].conversationId = id}

\* orderBy: { createdAt: 'asc' } over the rows at the places P: the orders the
\* store may return them in; rows of equal createdAt come in either order
OrderedByCreatedAt(P) ==
    { order \in [1..Cardinality(P) -> P] :
        /\ \A i, j \in DOMAIN order : i # j => order[i] # order[j]
        /\ \A i, j \in DOMAIN order :
              i < j => messages[order[i]].createdAt <= messages[order[j]].createdAt }

\* the rows at the places of an order
RowsAt(order) == [i \in DOMAIN order |-> messages[order[i]]]

-----------------------------------------------------------------------------
(* POST /chat/message: index.ts *)

MAX_MESSAGE_LENGTH == 1000

\* a request body's message: absent, a value that is not a string, a string
Missing == [type |-> "undefined", value |-> <<>>]
NotString == [type |-> "number", value |-> <<"7">>]
Str(s) == [type |-> "string", value |-> s]

MessageInputs ==
    { Missing, NotString, Str(<<>>), Str(<<" ">>), Str(<<" ", "h", "i">>),
      Str(Rep("x", MAX_MESSAGE_LENGTH + 1)),
      Str(<<" ">> \o Rep("x", MAX_MESSAGE_LENGTH)) }

\* the validation without the trim
IsEmptyMessage_NoTrim(message) ==
    message.type # "string" \/ message.value = <<>>

\* !message || typeof message !== "string" || message.trim() === ""
IsEmptyMessage(message) ==
    message.type # "string" \/ message.value = <<>> \/ Trim(message.value) = <<>>

\* message.length > 1000
IsTooLong(message) == Len(message.value) > MAX_MESSAGE_LENGTH

ConfigFallback == <<"Configuration error: LLM API key is not set. Please check your backend configuration.">>
AuthFallback == <<"Authentication error: Invalid API key. Please check your API key in the .env file.">>
TrafficFallback == <<"I'm experiencing high traffic right now. Please wait a moment and try again.">>
GenericFallback == <<"I'm sorry, I'm having trouble processing your request right now. Please try again in a moment, or contact our support team for immediate assistance.">>

Fallbacks == {ConfigFallback, AuthFallback, TrafficFallback, GenericFallback}

\* a catch whose last branch hands the error's own text to the user
FallbackFor_LeaksMessage(llmError) ==
    IF Includes(llmError.message, "API_KEY")
       \/ Includes(llmError.message, "not configured")
    THEN ConfigFallback
    ELSE IF llmError.status = 401 \/ llmError.statusCode = 401
    THEN AuthFallback
    ELSE IF llmError.status = 429 \/ llmError.statusCode = 429
    THEN TrafficFallback
    ELSE llmError.message

\* the catch around generateReply
FallbackFor(llmError) ==
    IF Includes(llmError.message, "API_KEY")
       \/ Includes(llmError.message, "not configured")
    THEN ConfigFallback
    ELSE IF llmError.status = 401 \/ llmError.statusCode = 401
    THEN AuthFallback
    ELSE IF llmError.status = 429 \/ llmError.statusCode = 429
    THEN TrafficFallback
    ELSE GenericFallback

NoResponse == [status |-> 0]
BadRequest(text) == [status |-> 400, error |-> text]
TooMany == [status |-> 429, error |-> RateLimitBody.error, reply |-> RateLimitBody.reply]
Ok(reply, sessionId) == [status |-> 200, reply |-> reply, sessionId |-> sessionId]
ServerError ==
    [status |-> 500, error |-> <<"Failed to process message">>,
     reply |-> <<"I'm experiencing some technical difficulties. Please try again later.">>]

NoRequest == [ip |-> "", message |-> Missing, sessionId |-> NoSid]
\* hit: the limiter's count for the request; created: Conversation rows it made;
\* saved: the places in messages of the rows it made; storeFailed: a store
\* operation of it rejected; rowSinceCall: a Message row has been created since
\* its latest provider call began
NoEffects ==
    [hit |-> 0, created |-> 0, saved |-> <<>>, storeFailed |-> FALSE,
     rowSinceCall |-> FALSE]

\* effects after slot r creates a Message row: the row is new to every request
AfterSave(r) ==
    [q \in DOMAIN effects |->
        IF q = r
        THEN [effects[q] EXCEPT !.saved = Append(@, Len(messages) + 1),
                                !.rowSinceCall = TRUE]
        ELSE [effects[q] EXCEPT !.rowSinceCall = TRUE]]

\* a provider call that began after the latest row was created has settled: the
\* store's clock has ticked since that row
ClockHasTicked(r) == gen[r].log # <<>> /\ ~effects[r].rowSinceCall

\* the synchronous head of the handler, for a request the limiter let through
AfterLimiter(req) ==
    IF IsEmptyMessage(req.message)
    THEN [pc |-> "done", response |-> BadRequest(<<"Message cannot be empty">>)]
    ELSE IF IsTooLong(req.message)
    THEN [pc |-> "done",
          response |-> BadRequest(<<"Message is too long (max 1000 characters)">>)]
    ELSE IF req.sessionId # NoSid
    THEN [pc |-> "findUnique", response |-> NoResponse]
    ELSE [pc |-> "create", response |-> NoResponse]

\* a request arrives: the limiter, then the handler up to its first await
Receive(r, ip, message, sessionId) ==
    LET req == [ip |-> ip, message |-> message, sessionId |-> sessionId]
        count == hits[ip] + 1
        next == IF OverLimit(count)
                THEN [pc |-> "done", response |-> TooMany]
                ELSE AfterLimiter(req)
    IN  /\ pc[r] = "idle"
        /\ hits' = [hits EXCEPT ![ip] = count]
        /\ admitted' = [admitted EXCEPT ![ip] = IF OverLimit(count) THEN @ ELSE @ + 1]
        /\ request' = [request EXCEPT ![r] = req]
        /\ effects' = [effects EXCEPT ![r] = [NoEffects EXCEPT !.hit = count]]
        /\ pc' = [pc EXCEPT ![r] = next.pc]
        /\ response' = [response EXCEPT ![r] = next.response]
        /\ UNCHANGED <<configVars, tally, browser, reads, storeVars, issued, conversation, gen, aiReply>>

\* the limiter's window of an IP ends
WindowReset(ip) ==
    /\ hits[ip] > 0
    /\ hits' = [hits EXCEPT ![ip] = 0]
    /\ admitted' = [admitted EXCEPT ![ip] = 0]
    /\ UNCHANGED <<configVars, tally, browser, reads, storeVars, issued, pc, request, conversation,
                   gen, aiReply, response, effects>>

\* a lookup whose include has no relation filter: the rows of every conversation
FindUnique_AllMessages(r) ==
    /\ pc[r] = "findUnique"
    /\ IF Found(request[r].sessionId)
       THEN /\ \E order \in OrderedByCreatedAt(DOMAIN messages) :
                   conversation' = [conversation EXCEPT ![r] =
                       [id |-> request[r].sessionId, messages |-> RowsAt(order)]]
            /\ pc' = [pc EXCEPT ![r] = "saveUser"]
       ELSE /\ pc' = [pc EXCEPT ![r] = "create"]
            /\ UNCHANGED conversation
    /\ UNCHANGED <<configVars, tally, browser, reads, hits, admitted, storeVars, issued, request, gen,
                   aiReply, response, effects>>

\* a lookup that rejects when it finds no row (findUniqueOrThrow)
FindUnique_OrThrow(r) ==
    /\ pc[r] = "findUnique"
    /\ IF Found(request[r].sessionId)
       THEN /\ \E order \in OrderedByCreatedAt(PlacesOf(request[r].sessionId)) :
                   conversation' = [conversation EXCEPT ![r] =
                       [id |-> request[r].sessionId, messages |-> RowsAt(order)]]
            /\ pc' = [pc EXCEPT ![r] = "saveUser"]
            /\ UNCHANGED response
       ELSE /\ pc' = [pc EXCEPT ![r] = "done"]
            /\ response' = [response EXCEPT ![r] = ServerError]
            /\ UNCHANGED conversation
    /\ UNCHANGED <<configVars, tally, browser, reads, hits, admitted, storeVars, issued, request, gen,
                   aiReply, effects>>

\* getOrCreateConversation: prisma.conversation.findUnique settles
FindUnique(r) ==
    /\ pc[r] = "findUnique"
    /\ IF Found(request[r].sessionId)
       THEN /\ \E order \in OrderedByCreatedAt(PlacesOf(request[r].sessionId)) :
                   conversation' = [conversation EXCEPT ![r] =
                       [id |-> request[r].sessionId, messages |-> RowsAt(order)]]
            /\ pc' = [pc EXCEPT ![r] = "saveUser"]
       ELSE /\ pc' = [pc EXCEPT ![r] = "create"]
            /\ UNCHANGED conversation
    /\ UNCHANGED <<configVars, tally, browser, reads, hits, admitted, storeVars, issued, request, gen,
                   aiReply, response, effects>>

\* a create that also stores the greeting the page shows as the first message
Create_Greets(r) ==
    /\ pc[r] = "create"
    /\ conversations' = conversations \cup {FreshId}
    /\ messages' = Append(messages, Row(FreshId, "ai", <<"Hi! How can I help you?">>, Now))
    /\ conversation' = [conversation EXCEPT ![r] = [id |-> FreshId, messages |-> <<>>]]
    /\ effects' = [effects EXCEPT ![r].created = @ + 1]
    /\ pc' = [pc EXCEPT ![r] = "saveUser"]
    /\ UNCHANGED <<configVars, tally, browser, reads, hits, admitted, issued, request, gen,
                   aiReply, response>>

\* getOrCreateConversation: prisma.conversation.create settles
Create(r) ==
    /\ pc[r] = "create"
    /\ conversations' = conversations \cup {FreshId}
    /\ conversation' = [conversation EXCEPT ![r] = [id |-> FreshId, messages |-> <<>>]]
    /\ effects' = [effects EXCEPT ![r].created = @ + 1]
    /\ pc' = [pc EXCEPT ![r] = "saveUser"]
    /\ UNCHANGED <<configVars, tally, browser, reads, hits, admitted, messages, issued, request, gen,
                   aiReply, response>>

\* conversation.messages.map(...)
HistoryOf(conv) ==
    [i \in 1..Len(conv.messages) |->
        [sender |-> conv.messages[i].sender, text |-> conv.messages[i].text]]

\* a handler that takes the conversation id from the request body
SaveUser_UnderRequestId(r, dt) ==
    LET text == Trim(request[r].message.value)
    IN  /\ pc[r] = "saveUser"
        /\ messages' = Append(messages, Row(request[r].sessionId, "user", text, Now + dt))
        /\ effects' = [AfterSave(r) EXCEPT ![r].rowSinceCall = FALSE]
        /\ gen' = [gen EXCEPT ![r] =
               GenStart(provider, env, HistoryOf(conversation[r]), text, DefaultRetries)]
        /\ pc' = [pc EXCEPT ![r] = "generating"]
        /\ UNCHANGED <<configVars, tally, browser, reads, hits, admitted, conversations, issued, request,
                       conversation, aiReply, response>>

\* a handler that goes on to generateReply with the save of the user message
\* not awaited and not yet done
SaveUser_NotAwaited(r, dt) ==
    LET text == Trim(request[r].message.value)
    IN  /\ pc[r] = "saveUser"
        /\ gen' = [gen EXCEPT ![r] =
               GenStart(provider, env, HistoryOf(conversation[r]), text, DefaultRetries)]
        /\ pc' = [pc EXCEPT ![r] = "generating"]
        /\ UNCHANGED <<configVars, tally, browser, reads, hits, admitted, storeVars, issued, request,
                       conversation, aiReply, response, effects>>

\* a handler that saves the user message as it came, not trimmed
SaveUser_Untrimmed(r, dt) ==
    LET text == Trim(request[r].message.value)
    IN  /\ pc[r] = "saveUser"
        /\ messages' = Append(messages,
                              Row(conversation[r].id, "user", request[r].message.value,
                                  Now + dt))
        /\ effects' = [AfterSave(r) EXCEPT ![r].rowSinceCall = FALSE]
        /\ gen' = [gen EXCEPT ![r] =
               GenStart(provider, env, HistoryOf(conversation[r]), text, DefaultRetries)]
        /\ pc' = [pc EXCEPT ![r] = "generating"]
        /\ UNCHANGED <<configVars, tally, browser, reads, hits, admitted, conversations, issued, request,
                       conversation, aiReply, response>>

\* saveMessage of the user message settles, dt ticks of the store's clock after
\* the latest row; generateReply runs to its first await
SaveUser(r, dt) ==
    LET text == Trim(request[r].message.value)
    IN  /\ pc[r] = "saveUser"
        /\ messages' = Append(messages, Row(conversation[r].id, "user", text, Now + dt))
        /\ effects' = [AfterSave(r) EXCEPT ![r].rowSinceCall = FALSE]
        /\ gen' = [gen EXCEPT ![r] =
               GenStart(provider, env, HistoryOf(conversation[r]), text, DefaultRetries)]
        /\ pc' = [pc EXCEPT ![r] = "generating"]
        /\ UNCHANGED <<configVars, tally, browser, reads, hits, admitted, conversations, issued, request,
                       conversation, aiReply, response>>

\* generateReply has settled: its text, or the fallback for what it threw
AfterGenerate(r) ==
    /\ pc[r] = "generating"
    /\ gen[r].state \in {"returned", "threw"}
    /\ aiReply' = [aiReply EXCEPT ![r] =
           IF gen[r].state = "returned" THEN gen[r].result
           ELSE FallbackFor(gen[r].error)]
    /\ pc' = [pc EXCEPT ![r] = "saveAi"]
    /\ UNCHANGED <<configVars, tally, browser, reads, hits, admitted, storeVars, issued, request,
                   conversation, gen, response, effects>>

\* a save that turns the request's user row into the ai row (an update where a
\* create is meant)
SaveAi_Overwrites(r, dt) ==
    /\ pc[r] = "saveAi"
    /\ ClockHasTicked(r) => dt > 0
    /\ messages' = [messages EXCEPT ![effects[r].saved[1]] =
                       Row(conversation[r].id, "ai", aiReply[r], Now + dt)]
    /\ effects' = [effects EXCEPT ![r].saved = Append(@, effects[r].saved[1])]
    /\ response' = [response EXCEPT ![r] = Ok(aiReply[r], conversation[r].id)]
    /\ tally' = Tallied(conversation[r].id)
    /\ pc' = [pc EXCEPT ![r] = "done"]
    /\ UNCHANGED <<configVars, browser, reads, hits, admitted, conversations, issued, request,
                   conversation, gen, aiReply>>

\* saveMessage of the reply settles, dt ticks of the store's clock after the
\* latest row; the response is sent
SaveAi(r, dt) ==
    /\ pc[r] = "saveAi"
    /\ ClockHasTicked(r) => dt > 0
    /\ messages' = Append(messages, Row(conversation[r].id, "ai", aiReply[r], Now + dt))
    /\ effects' = AfterSave(r)
    /\ response' = [response EXCEPT ![r] = Ok(aiReply[r], conversation[r].id)]
    /\ tally' = Tallied(conversation[r].id)
    /\ pc' = [pc EXCEPT ![r] = "done"]
    /\ UNCHANGED <<configVars, browser, reads, hits, admitted, conversations, issued, request,
                   conversation, gen, aiReply>>

\* an outer catch that still hands out the reply when saving it rejected
StoreFail_StillReplies(r) ==
    /\ pc[r] \in {"findUnique", "create", "saveUser", "saveAi"}
    /\ effects' = [effects EXCEPT ![r].storeFailed = TRUE]
    /\ response' = [response EXCEPT ![r] =
           IF pc[r] = "saveAi" THEN Ok(aiReply[r], conversation[r].id)
           ELSE ServerError]
    /\ tally' = IF pc[r] = "saveAi" THEN Tallied(conversation[r].id) ELSE tally
    /\ pc' = [pc EXCEPT ![r] = "done"]
    /\ UNCHANGED <<configVars, browser, reads, hits, admitted, storeVars, issued, request,
                   conversation, gen, aiReply>>

\* a failure that undoes what the request had persisted
StoreFail_RollsBack(r) ==
    /\ pc[r] \in {"findUnique", "create", "saveUser", "saveAi"}
    /\ effects' = [effects EXCEPT ![r].storeFailed = TRUE]
    /\ response' = [response EXCEPT ![r] = ServerError]
    /\ pc' = [pc EXCEPT ![r] = "done"]
    /\ conversations' = IF effects[r].created > 0
                        THEN conversations \ {conversation[r].id} ELSE conversations
    /\ messages' = SelectSeq(messages, LAMBDA m :
                       effects[r].created = 0 \/ m.conversationId # conversation[r].id)
    /\ UNCHANGED <<configVars, tally, browser, reads, hits, admitted, issued, request,
                   conversation, gen, aiReply>>

\* a store operation rejects: the outer catch answers
StoreFail(r) ==
    /\ pc[r] \in {"findUnique", "create", "saveUser", "saveAi"}
    /\ effects' = [effects EXCEPT ![r].storeFailed = TRUE]
    /\ response' = [response EXCEPT ![r] = ServerError]
    /\ pc' = [pc EXCEPT ![r] = "done"]
    /\ UNCHANGED <<configVars, tally, browser, reads, hits, admitted, storeVars, issued, request,
                   conversation, gen, aiReply>>

\* the client has the response; the slot is free for the next request
Finish(r) ==
    /\ pc[r] = "done"
    /\ issued' = IF response[r].status = 200
                 THEN issued \cup {response[r].sessionId} ELSE issued
    /\ pc' = [pc EXCEPT ![r] = "idle"]
    /\ request' = [request EXCEPT ![r] = NoRequest]
    /\ conversation' = [conversation EXCEPT ![r] = NoConversation]
    /\ gen' = [gen EXCEPT ![r] = NoGen]
    /\ aiReply' = [aiReply EXCEPT ![r] = <<>>]
    /\ response' = [response EXCEPT ![r] = NoResponse]
    /\ effects' = [effects EXCEPT ![r] = NoEffects]
    /\ UNCHANGED <<configVars, tally, browser, reads, hits, admitted, storeVars>>

-----------------------------------------------------------------------------
(* GET /chat/history/:sessionId: index.ts *)

NoRead == [pc |-> "idle", sessionId |-> NoSid, response |-> NoResponse]

\* messages.map(msg => ({ sender, text, timestamp: msg.createdAt }))
HistoryBody(rows) ==
    [i \in DOMAIN rows |->
        [sender |-> rows[i].sender, text |-> rows[i].text,
         timestamp |-> rows[i].createdAt]]

HistoryOk(rows) == [status |-> 200, messages |-> HistoryBody(rows)]
HistoryError == [status |-> 500, error |-> <<"Failed to fetch chat history">>]

\* a request arrives: the handler up to its await
ReceiveHistory(sessionId) ==
    /\ reads.pc = "idle"
    /\ reads' = IF sessionId = NoSid
                THEN [pc |-> "done", sessionId |-> sessionId,
                      response |-> BadRequest(<<"Session ID is required">>)]
                ELSE [pc |-> "findMany", sessionId |-> sessionId,
                      response |-> NoResponse]
    /\ UNCHANGED <<configVars, tally, browser, hits, admitted, storeVars, issued, pc, request,
                   conversation, gen, aiReply, response, effects>>

\* a query without its where clause: the rows of every conversation
FindMany_AnyConversation ==
    /\ reads.pc = "findMany"
    /\ \E order \in OrderedByCreatedAt(DOMAIN messages) :
           reads' = [reads EXCEPT !.pc = "done", !.response = HistoryOk(RowsAt(order))]
    /\ UNCHANGED <<configVars, tally, browser, hits, admitted, storeVars, issued, pc, request,
                   conversation, gen, aiReply, response, effects>>

\* getConversationMessages: prisma.message.findMany settles; the response is sent
FindMany ==
    /\ reads.pc = "findMany"
    /\ \E order \in OrderedByCreatedAt(PlacesOf(reads.sessionId)) :
           reads' = [reads EXCEPT !.pc = "done", !.response = HistoryOk(RowsAt(order))]
    /\ UNCHANGED <<configVars, tally, browser, hits, admitted, storeVars, issued, pc, request,
                   conversation, gen, aiReply, response, effects>>

\* the query rejects: the catch answers
FindManyFail ==
    /\ reads.pc = "findMany"
    /\ reads' = [reads EXCEPT !.pc = "done", !.response = HistoryError]
    /\ UNCHANGED <<configVars, tally, browser, hits, admitted, storeVars, issued, pc, request,
                   conversation, gen, aiReply, response, effects>>

\* the client has the response
FinishHistory ==
    /\ reads.pc = "done"
    /\ reads' = NoRead
    /\ UNCHANGED <<configVars, tally, browser, hits, admitted, storeVars, issued, pc, request,
                   conversation, gen, aiReply, response, effects>>

-----------------------------------------------------------------------------
(* The start of the process: index.ts lines 1-8 *)

\* LLM_PROVIDER is not set
NotSet == "undefined"

\* a process that listens, started in an environment that names the provider p
Started(p) == [pc |-> "listening", processEnv |-> p, dotenvFile |-> p]

\* what LLM_PROVIDER may be in backend/.env
ProviderSettings == {NotSet, "", "groq", "openai", "claude"}

\* process.env.LLM_PROVIDER || 'groq'
ResolveProvider(value) == IF value \in {NotSet, ""} THEN DefaultProvider ELSE value

\* dotenv.config(): a variable the environment already has keeps its value
LoadDotenv(processEnv, dotenvFile) ==
    IF processEnv = NotSet THEN dotenvFile ELSE processEnv

\* import "./services/conversation", which imports ../lib/db.  lib/db is not
\* among the sources: whether building the database client reads backend/.env
\* into process.env is left open
ImportConversation(preloads) ==
    /\ boot.pc = "start"
    /\ boot' = [boot EXCEPT !.pc = "conversation",
                            !.processEnv = IF preloads
                                           THEN LoadDotenv(boot.processEnv, boot.dotenvFile)
                                           ELSE boot.processEnv]
    /\ UNCHANGED <<provider, env, tally, browser, reads, hits, admitted, storeVars, issued,
                   pc, request, conversation, gen, aiReply, response, effects>>

\* import "./services/llm": config.ts is evaluated, LLM_CONFIG.provider is set
ImportLlm ==
    /\ boot.pc = "conversation"
    /\ provider' = ResolveProvider(boot.processEnv)
    /\ boot' = [boot EXCEPT !.pc = "llm"]
    /\ UNCHANGED <<env, tally, browser, reads, hits, admitted, storeVars, issued,
                   pc, request, conversation, gen, aiReply, response, effects>>

\* dotenv.config(), then the routes are set up and the server listens
DotenvConfig ==
    /\ boot.pc = "llm"
    /\ boot' = [boot EXCEPT !.pc = "listening",
                            !.processEnv = LoadDotenv(boot.processEnv, boot.dotenvFile)]
    /\ UNCHANGED <<provider, env, tally, browser, reads, hits, admitted, storeVars, issued,
                   pc, request, conversation, gen, aiReply, response, effects>>

-----------------------------------------------------------------------------
(* The browser page: frontend/src/routes/+page.svelte *)

\* no page is open; localStorage is empty
NoPage ==
    [page |-> "closed", sessionId |-> NoSid, stored |-> NoSid, input |-> <<>>,
     loading |-> FALSE, loadingHistory |-> TRUE, messages |-> <<>>,
     inFlight |-> 0, body |-> [message |-> <<>>, sessionId |-> NoSid],
     loadingOf |-> NoSid, historyInFlight |-> FALSE,
     sends |-> 0, lastOk |-> NoSid, outcome |-> "none"]

\* the greeting shown when there is no history
Welcome ==
    [sender |-> "ai",
     text |-> <<"Hi! How can I help you? Ask me about shipping, returns, or payments.">>]

\* the text shown when a send fails
Trouble == <<"Sorry, I'm having trouble right now. Please try again.">>

\* data.messages.map(msg => ({ sender, text, timestamp, feedback }))
Displayed(entries) ==
    [i \in DOMAIN entries |-> [sender |-> entries[i].sender, text |-> entries[i].text]]

\* onMount: the stored session id, if any, and the start of loadChatHistory up
\* to its fetch
OnMount ==
    /\ browser.page = "closed"
    /\ browser' =
          IF browser.stored # NoSid
          THEN [browser EXCEPT !.page = "open",
                               !.sessionId = browser.stored,
                               !.loadingOf = browser.stored,
                               !.historyInFlight = TRUE]
          ELSE [browser EXCEPT !.page = "open",
                               !.messages = <<Welcome>>,
                               !.loadingHistory = FALSE]
    /\ UNCHANGED serverVars

\* loadChatHistory after its fetch has brought the response of the server
HistoryArrives ==
    /\ browser.page = "open"
    /\ browser.historyInFlight
    /\ reads.pc = "done"
    /\ browser' =
          [browser EXCEPT
              !.messages = IF reads.response.status = 200
                              /\ Len(reads.response.messages) > 0
                           THEN Displayed(reads.response.messages)
                           ELSE <<Welcome>>,
              !.loadingHistory = FALSE,
              !.historyInFlight = FALSE]
    /\ UNCHANGED serverVars

\* loadChatHistory when its fetch rejects
HistoryFetchFails ==
    /\ browser.page = "open"
    /\ browser.historyInFlight
    /\ browser' = [browser EXCEPT !.messages = <<Welcome>>,
                                  !.loadingHistory = FALSE,
                                  !.historyInFlight = FALSE]
    /\ UNCHANGED serverVars

\* bind:value={input}; the field is disabled while loading
TypeInput(text) ==
    /\ browser.page = "open"
    /\ ~browser.loading
    /\ browser' = [browser EXCEPT !.input = text]
    /\ UNCHANGED serverVars

\* a sendMessage that tests the input as typed, not trimmed
SendMessage_Untrimmed ==
    /\ browser.page = "open"
    /\ browser' =
          IF browser.input = <<>> \/ browser.loading
          THEN browser
          ELSE [browser EXCEPT
                   !.input = <<>>,
                   !.loading = TRUE,
                   !.messages = Append(@, [sender |-> "user", text |-> Trim(browser.input)]),
                   !.body = [message |-> Trim(browser.input),
                             sessionId |-> browser.sessionId],
                   !.inFlight = @ + 1,
                   !.sends = @ + 1,
                   !.outcome = "none"]
    /\ UNCHANGED serverVars

\* sendMessage from its call (the button or Enter) to its fetch
SendMessage ==
    /\ browser.page = "open"
    /\ browser' =
          IF Trim(browser.input) = <<>> \/ browser.loading
          THEN browser
          ELSE [browser EXCEPT
                   !.input = <<>>,
                   !.loading = TRUE,
                   !.messages = Append(@, [sender |-> "user", text |-> Trim(browser.input)]),
                   !.body = [message |-> Trim(browser.input),
                             sessionId |-> browser.sessionId],
                   !.inFlight = @ + 1,
                   !.sends = @ + 1,
                   !.outcome = "none"]
    /\ UNCHANGED serverVars

\* the catch and finally of sendMessage
AfterFailedSend(b, outcome) ==
    [b EXCEPT !.messages = Append(@, [sender |-> "ai", text |-> Trouble]),
              !.loading = FALSE,
              !.inFlight = @ - 1,
              !.outcome = outcome]

\* a sendMessage that keeps the session id it has once it has one
ResponseArrives_KeepsFirst ==
    /\ browser.page = "open"
    /\ browser.inFlight > 0
    /\ pc[1] = "done"
    /\ browser' =
          IF response[1].status = 200
          THEN [browser EXCEPT
                   !.sessionId = IF @ = NoSid THEN response[1].sessionId ELSE @,
                   !.stored = IF browser.sessionId = NoSid
                              THEN response[1].sessionId ELSE @,
                   !.messages = Append(@, [sender |-> "ai", text |-> response[1].reply]),
                   !.loading = FALSE,
                   !.inFlight = @ - 1,
                   !.lastOk = response[1].sessionId,
                   !.outcome = "ok"]
          ELSE AfterFailedSend(browser, "notOk")
    /\ UNCHANGED serverVars

\* sendMessage after its fetch has brought the response of the server
ResponseArrives ==
    /\ browser.page = "open"
    /\ browser.inFlight > 0
    /\ pc[1] = "done"
    /\ browser' =
          IF response[1].status = 200
          THEN [browser EXCEPT
                   !.sessionId = IF response[1].sessionId # NoSid
                                 THEN response[1].sessionId ELSE @,
                   !.stored = IF response[1].sessionId # NoSid
                              THEN response[1].sessionId ELSE @,
                   !.messages = Append(@, [sender |-> "ai", text |-> response[1].reply]),
                   !.loading = FALSE,
                   !.inFlight = @ - 1,
                   !.lastOk = response[1].sessionId,
                   !.outcome = "ok"]
          ELSE AfterFailedSend(browser, "notOk")
    /\ UNCHANGED serverVars

\* sendMessage when its fetch rejects: the request or the response is lost
FetchFails ==
    /\ browser.page = "open"
    /\ browser.inFlight > 0
    /\ browser' = AfterFailedSend(browser, "network")
    /\ UNCHANGED serverVars

\* the page is closed or reloaded: its variables are gone, localStorage stays
Close ==
    /\ browser.page = "open"
    /\ browser' = [NoPage EXCEPT !.stored = browser.stored,
                                 !.sends = browser.sends,
                                 !.lastOk = browser.lastOk]
    /\ UNCHANGED serverVars

-----------------------------------------------------------------------------
(* The server *)

ValidKey == <<"k", "1">>

\* process.env: one key is anything, the other is not set
Envs ==
    {[GROQ_API_KEY |-> k, OPENAI_API_KEY |-> Unset] : k \in KeyValues}
    \cup {[GROQ_API_KEY |-> Unset, OPENAI_API_KEY |-> k] : k \in KeyValues}

InitServer ==
    /\ hits = [ip \in IPs |-> 0]
    /\ admitted = [ip \in IPs |-> 0]
    /\ conversations = {}
    /\ messages = <<>>
    /\ issued = {}
    /\ pc = [r \in Reqs |-> "idle"]
    /\ request = [r \in Reqs |-> NoRequest]
    /\ conversation = [r \in Reqs |-> NoConversation]
    /\ gen = [r \in Reqs |-> NoGen]
    /\ aiReply = [r \in Reqs |-> <<>>]
    /\ response = [r \in Reqs |-> NoResponse]
    /\ effects = [r \in Reqs |-> NoEffects]
    /\ reads = NoRead
    /\ tally = <<>>

\* session ids of a request body that no response has returned
SessionInputs == {NoSid, UnknownSid, MalformedSid}

\* the store's clock between two rows: the same reading, or a later one
Ticks == {0, 1}

\* the steps of the server for requests in the slots R, sent from the IPs I with
\* messages of M and session ids of S or issued ones, the provider answering
\* with outcomes of O, rows created D ticks apart, within the bounds
ServerStep(R, I, M, S, O, D, maxHits, maxConversations, maxMessages) ==
    \/ \E r \in R, ip \in I, message \in M, sessionId \in S \cup issued :
          hits[ip] < maxHits /\ Receive(r, ip, message, sessionId)
    \/ \E ip \in I : WindowReset(ip)
    \/ \E r \in R : FindUnique(r)
    \/ \E r \in R : Cardinality(conversations) < maxConversations /\ Create(r)
    \/ \E r \in R, dt \in D : Len(messages) < maxMessages /\ SaveUser(r, dt)
    \/ \E r \in R, outcome \in O : ProviderRespond(r, outcome)
    \/ \E r \in R : Wake(r)
    \/ \E r \in R : AfterGenerate(r)
    \/ \E r \in R, dt \in D : Len(messages) < maxMessages /\ SaveAi(r, dt)
    \/ \E r \in R : StoreFail(r)
    \/ \E r \in R : Finish(r)

(* Requests that overlap, on sessions they share: the provider is groq with  *)
(* a working key, answers or is rate limited; the limiter is never reached.  *)
Init ==
    /\ provider = DefaultProvider
    /\ env = [GROQ_API_KEY |-> ValidKey, OPENAI_API_KEY |-> Unset]
    /\ InitServer
    /\ boot = Started(provider)
    /\ browser = NoPage

Next ==
    ServerStep(Reqs, {"ip1"}, {Missing, Str(<<" ", "h", "i">>)}, {NoSid, UnknownSid},
               {Completed(<<" ", "o", "k", " ">>), Thrown(Err(<<"429 Rate limit reached">>, 429, 0, 0))},
               {1}, MaxHits, MaxConversations, MaxMessages)

Spec == Init /\ [][Next]_vars

(* One request at a time, every configuration, message and provider outcome. *)
InitReply ==
    /\ provider \in ProviderNames
    /\ env \in Envs
    /\ InitServer
    /\ boot = Started(provider)
    /\ browser = NoPage

NextReply ==
    ServerStep({1}, {"ip1"}, MessageInputs, SessionInputs, Outcomes, {1},
               MaxHits, MaxReplyConversations, MaxReplyMessages)

SpecReply == InitReply /\ [][NextReply]_vars

(* The limiter: bursts of requests from two IPs, one request at a time. *)
NextLimit ==
    ServerStep({1}, IPs, MessageInputs, {NoSid, UnknownSid},
               {Completed(<<" ", "o", "k", " ">>), Thrown(Err(<<"429 Rate limit reached">>, 429, 0, 0))},
               {1}, MaxBurst, MaxReplyConversations, MaxReplyMessages)

SpecLimit == Init /\ [][NextLimit]_vars

(* The store while a conversation's history is read: two messages, a working *)
(* groq key and a provider that answers; rows are created in the same tick   *)
(* of the store's clock or ticks apart.                                      *)
StoreStep(R, M, maxConversations) ==
    \/ \E r \in R, message \in M, sessionId \in {NoSid} \cup issued :
          hits["ip1"] < MaxHits /\ Receive(r, "ip1", message, sessionId)
    \/ WindowReset("ip1")
    \/ \E r \in R : FindUnique(r)
    \/ \E r \in R : Cardinality(conversations) < maxConversations /\ Create(r)
    \/ \E r \in R, dt \in Ticks : Len(messages) < MaxStoreMessages /\ SaveUser(r, dt)
    \/ \E r \in R : ProviderRespond(r, Completed(<<" ", "o", "k", " ">>))
    \/ \E r \in R : AfterGenerate(r)
    \/ \E r \in R, dt \in Ticks : Len(messages) < MaxStoreMessages /\ SaveAi(r, dt)
    \/ \E r \in R : Finish(r)
    \/ \E sessionId \in {UnknownSid, MalformedSid} \cup issued : ReceiveHistory(sessionId)
    \/ FindMany
    \/ FindManyFail
    \/ FinishHistory

(* requests that overlap on one conversation *)
NextStore ==
    StoreStep(Reqs, {Str(<<" ", "h", "i">>), Str(<<"y", "o">>)}, MaxReplyConversations)

SpecStore == Init /\ [][NextStore]_vars

(* one request at a time, on two conversations; a request may come without *)
(* its message                                                              *)
NextRead ==
    StoreStep({1}, {Missing, Str(<<" ", "h", "i">>), Str(<<"y", "o">>)}, MaxConversations)

SpecRead == Init /\ [][NextRead]_vars

-----------------------------------------------------------------------------
(* generateReply called on its own, with any history and any retries *)

Senders == {"user", "ai", "system"}

\* a history of n entries: the text of an entry tells its place, the senders
\* repeat a pattern of two
History(n, pattern) ==
    [i \in 1..n |-> [sender |-> pattern[((i - 1) % 2) + 1], text |-> Rep("t", i)]]

HistoryInputs == {History(n, pattern) : n \in 0..MaxHistory, pattern \in [1..2 -> Senders]}

\* const reply = await generateReply(history, userMessage, retries)
DirectCall(conversationHistory, userMessage, retries) ==
    /\ pc[1] = "idle"
    /\ gen[1].state = "none"
    /\ gen' = [gen EXCEPT ![1] =
           GenStart(provider, env, conversationHistory, userMessage, retries)]
    /\ UNCHANGED <<configVars, tally, browser, reads, hits, admitted, storeVars, issued, pc, request,
                   conversation, aiReply, response, effects>>

NextGen ==
    \/ \E h \in HistoryInputs, retries \in 0..MaxRetries :
          DirectCall(h, <<"h", "i">>, retries)
    \/ \E outcome \in Outcomes : ProviderRespond(1, outcome)
    \/ Wake(1)

SpecGen == InitReply /\ [][NextGen]_vars

(* The process from its start: LLM_PROVIDER is not in the environment the    *)
(* process is started in and is anything in backend/.env, both API keys     *)
(* work; generateReply is called once the server listens.                   *)
InitBoot ==
    /\ provider = NotSet
    /\ env = [GROQ_API_KEY |-> ValidKey, OPENAI_API_KEY |-> ValidKey]
    /\ InitServer
    /\ \E inFile \in ProviderSettings :
          boot = [pc |-> "start", processEnv |-> NotSet, dotenvFile |-> inFile]
    /\ browser = NoPage

NextBoot ==
    \/ \E preloads \in BOOLEAN : ImportConversation(preloads)
    \/ ImportLlm
    \/ DotenvConfig
    \/ \E n \in 0..2, retries \in 0..DefaultRetries :
          boot.pc = "listening"
          /\ DirectCall(History(n, <<"user", "ai">>), <<"h", "i">>, retries)
    \/ \E outcome \in {Completed(<<" ", "o", "k", " ">>),
                        Thrown(Err(<<"429 Rate limit reached">>, 429, 0, 0))} :
          ProviderRespond(1, outcome)
    \/ Wake(1)

SpecBoot == InitBoot /\ [][NextBoot]_vars

(* The page and the server: localStorage is empty or holds the id of a     *)
(* session the store does not have; a request reaches the server while the *)
(* page waits for it, and leaves the server once the page has its response *)
(* or has given up; the page sends when the server is done with the        *)
(* request before.                                                         *)
InitBrowser ==
    /\ provider = DefaultProvider
    /\ env = [GROQ_API_KEY |-> ValidKey, OPENAI_API_KEY |-> Unset]
    /\ InitServer
    /\ boot = Started(provider)
    /\ \E stored \in {NoSid, UnknownSid} : browser = [NoPage EXCEPT !.stored = stored]

NextBrowser ==
    \/ (browser.stored # NoSid => reads.pc = "idle") /\ OnMount
    \/ \E text \in {<<" ">>, <<" ", "h", "i", " ">>} : TypeInput(text)
    \/ browser.sends < MaxSends /\ pc[1] = "idle" /\ SendMessage
    \/ ResponseArrives
    \/ FetchFails
    \/ HistoryArrives
    \/ HistoryFetchFails
    \/ Close
    \/ /\ browser.inFlight > 0
       /\ Receive(1, "ip1", Str(browser.body.message), browser.body.sessionId)
    \/ FindUnique(1)
    \/ Cardinality(conversations) < MaxConversations /\ Create(1)
    \/ Len(messages) < MaxStoreMessages /\ SaveUser(1, 1)
    \/ ProviderRespond(1, Completed(<<" ", "o", "k", " ">>))
    \/ AfterGenerate(1)
    \/ Len(messages) < MaxStoreMessages /\ SaveAi(1, 1)
    \/ StoreFail(1)
    \/ browser.inFlight = 0 /\ Finish(1)
    \/ browser.historyInFlight /\ ReceiveHistory(browser.loadingOf)
    \/ FindMany
    \/ FindManyFail
    \/ ~browser.historyInFlight /\ FinishHistory

SpecBrowser == InitBrowser /\ [][NextBrowser]_vars

-----------------------------------------------------------------------------
(* Properties of POST /chat/message *)

\* a request is in slot r (its response may be out already)
Present(r) == pc[r] # "idle"

\* the response of slot r's request has been sent
Answered(r) == pc[r] = "done"

\* the limiter let the request of slot r through
PassedLimiter(r) == effects[r].hit <= 10

\* a string, not empty after trimming, of at most 1000 characters
IsValidBody(m) ==
    /\ m.type = "string"
    /\ \E i \in DOMAIN m.value : m.value[i] # " "
    /\ Len(m.value) <= 1000

\* the request of slot r touched neither the store nor the provider
NoSideEffects(r) ==
    /\ effects[r].created = 0
    /\ effects[r].saved = <<>>
    /\ gen[r].sent = <<>>

\* C1: a request that passes the limiter with a valid message is answered 200
\* with a non-empty reply and a sessionId, whatever the provider does, provided
\* every store operation succeeds.
C1_ValidMessageGetsReply ==
    \A r \in Reqs :
        (Answered(r) /\ PassedLimiter(r) /\ IsValidBody(request[r].message)
         /\ ~effects[r].storeFailed)
        => /\ response[r].status = 200
           /\ response[r].reply # <<>>
           /\ response[r].sessionId # NoSid

\* C2: a request carrying a sessionId that a 200 response returned creates no
\* conversation, appends its messages to that conversation and, when answered
\* 200, gets the same sessionId back.
C2_SessionIdStable ==
    \A r \in Reqs :
        (Present(r) /\ request[r].sessionId \in issued)
        => /\ effects[r].created = 0
           /\ \A i \in 1..Len(effects[r].saved) :
                 messages[effects[r].saved[i]].conversationId = request[r].sessionId
           /\ (Answered(r) /\ response[r].status = 200)
                 => response[r].sessionId = request[r].sessionId

\* a second exchange on a session has been answered 200
C2_Witness ==
    \E r \in Reqs :
        /\ Answered(r) /\ response[r].status = 200
        /\ request[r].sessionId \in issued
        /\ Len(effects[r].saved) = 2
        /\ Len(MessagesOf(request[r].sessionId)) = 4

\* C3, as claimed: a request with a message that is missing, not a string,
\* empty after trimming or longer than 1000 characters is answered 400, creates
\* no Conversation and no Message, and the provider is never called.
C3_InvalidMessageGets400 ==
    \A r \in Reqs :
        (Present(r) /\ ~IsValidBody(request[r].message))
        => /\ Answered(r)
           /\ response[r].status = 400
           /\ NoSideEffects(r)

\* C3, amended: such a request, when it passes the limiter, is answered 400;
\* whether it passes or not, it creates no Conversation and no Message and the
\* provider is never called.
C3_InvalidMessageRejected ==
    \A r \in Reqs :
        (Present(r) /\ ~IsValidBody(request[r].message))
        => /\ Answered(r)
           /\ PassedLimiter(r) => response[r].status = 400
           /\ NoSideEffects(r)

\* a message of 1001 characters has been answered 400 with the store in use
C3_Witness ==
    \E r \in Reqs :
        /\ Answered(r) /\ response[r].status = 400
        /\ Len(request[r].message.value) = 1001
        /\ messages # <<>>

\* C4: of the requests of one IP in one window at most 10 reach the handler;
\* the 11th and every later one is answered 429 with an error and a reply text
\* and causes no store mutation and no provider call.
C4_RateLimit ==
    /\ \A ip \in IPs : admitted[ip] <= 10
    /\ \A r \in Reqs :
          (Present(r) /\ effects[r].hit >= 11)
          => /\ Answered(r)
             /\ response[r].status = 429
             /\ response[r].error # <<>>
             /\ response[r].reply # <<>>
             /\ NoSideEffects(r)

\* the 12th request of a window has been answered 429, its message valid,
\* while the other IP is still under its limit
C4_Witness ==
    \E r \in Reqs :
        /\ Answered(r) /\ response[r].status = 429
        /\ effects[r].hit = 12
        /\ IsValidBody(request[r].message)
        /\ admitted[request[r].ip] = 10
        /\ \E ip \in IPs : hits[ip] \in 1..9

\* generateReply failed for the request of slot r
GenerateFailed(r) == gen[r].state = "threw"

\* the last row the request of slot r saved is its reply, in its conversation
ReplyPersisted(r) ==
    /\ effects[r].saved # <<>>
    /\ LET m == messages[effects[r].saved[Len(effects[r].saved)]]
       IN  /\ m.conversationId = response[r].sessionId
           /\ m.sender = "ai"
           /\ m.text = response[r].reply

CauseOf(g) ==
    IF g.sent = <<>> /\ g.validations = 1 THEN "credential"
    ELSE IF g.log = <<>> THEN "other"
    ELSE LET e == g.log[Len(g.log)].error
         IN  IF g.log[Len(g.log)].ok THEN "other"
             ELSE IF 401 \in {e.status, e.statusCode, e.responseStatus} THEN "401"
             ELSE IF 429 \in {e.status, e.statusCode, e.responseStatus} THEN "429"
             ELSE "other"

FallbackOfCause(cause) ==
    IF cause = "credential" THEN ConfigFallback
    ELSE IF cause = "401" THEN AuthFallback
    ELSE IF cause = "429" THEN TrafficFallback
    ELSE GenericFallback

\* C6: the fallback text tells the cause: a missing credential gives the
\* configuration text, a 401 of the provider the authentication text, a 429
\* after the retries the high-traffic text, anything else the generic text.
C6_FallbackTellsCause ==
    \A r \in Reqs :
        (pc[r] \in {"saveAi", "done"} /\ GenerateFailed(r))
        => aiReply[r] = FallbackOfCause(CauseOf(gen[r]))

-----------------------------------------------------------------------------
(* Properties of generateReply *)

\* a call of a provider client failed with status 429
RateLimited(o) ==
    ~o.ok /\ 429 \in {o.error.status, o.error.statusCode, o.error.responseStatus}

\* a call of a provider client came back with a text
Succeeded(o) == o.ok /\ o.content # Unset /\ o.content # <<>>

\* the waits before the calls 2..k+1, in milliseconds: 1s, 2s, 4s, ...
Backoff(k) == [i \in 1..k |-> (2 ^ (i - 1)) * 1000]

\* C7: the prompt sent to the provider is one system entry, then the last
\* min(n, 10) entries of the history in their order (sender user as role user,
\* any other sender as role assistant), then the new user message; none of the
\* older entries appears in it.
C7_PromptIsBoundedContext ==
    \A r \in Reqs : \A c \in 1..Len(gen[r].sent) :
        LET h == gen[r].history
            n == Len(h)
            k == IF n < 10 THEN n ELSE 10
            m == gen[r].sent[c].messages
        IN  /\ Len(m) = k + 2
            /\ m[1] = [role |-> "system", content |-> SYSTEM_PROMPT]
            /\ \A i \in 1..k :
                  m[i + 1] = [role |-> IF h[n - k + i].sender = "user"
                                        THEN "user" ELSE "assistant",
                              content |-> h[n - k + i].text]
            /\ m[k + 2] = [role |-> "user", content |-> gen[r].userMessage]
            /\ \A j \in 1..(n - k) : \A i \in 1..Len(m) : m[i].content # h[j].text

\* a history of 11 entries, one of a sender that is neither user nor ai, has
\* been sent to the provider
C7_Witness ==
    \E r \in Reqs :
        /\ Len(gen[r].history) = 11
        /\ gen[r].sent # <<>>
        /\ \E i \in 1..11 : gen[r].history[i].sender = "system"
        /\ \E i \in 1..11 : gen[r].history[i].sender = "user"

\* C8: when the first k calls fail with status 429 (k <= retries) and the next
\* succeeds, generateReply returns that text after exactly k+1 calls and k
\* waits of 1s, 2s, ..., 2^(k-1) s in that order.
C8_BackoffThenSuccess ==
    \A r \in Reqs :
        LET g == gen[r]
            n == Len(g.log)
        IN  (/\ n >= 1
             /\ n - 1 <= g.retries
             /\ \A i \in 1..(n - 1) : RateLimited(g.log[i])
             /\ Succeeded(g.log[n]))
            => /\ g.state = "returned"
               /\ g.result = Trim(g.log[n].content)
               /\ Len(g.sent) = n
               /\ g.waits = Backoff(n - 1)

\* with the default retries, two rate-limited calls and then a text: three
\* calls, waits of 1s and 2s
C8_Witness ==
    \E r \in Reqs :
        /\ gen[r].retries = 2
        /\ gen[r].state = "returned"
        /\ gen[r].result = <<"o", "k">>
        /\ Len(gen[r].sent) = 3
        /\ gen[r].waits = <<1000, 2000>>

\* C9: a call that fails with anything but status 429 (401, another status, no
\* status, an empty completion) ends generateReply with that failure: no call
\* and no wait follows it.
C9_OtherFailurePropagates ==
    \A r \in Reqs :
        LET g == gen[r]
            n == Len(g.log)
        IN  (n >= 1 /\ ~Succeeded(g.log[n]) /\ ~RateLimited(g.log[n]))
            => /\ g.state = "threw"
               /\ Len(g.sent) = n
               /\ Len(g.waits) = n - 1
               /\ n = 1 => (Len(g.sent) = 1 /\ g.waits = <<>>)
               /\ ~g.log[n].ok => g.error.message = g.log[n].error.message
               /\ g.log[n].ok => g.error.message \in
                      {<<"No response from Groq">>, <<"No response from OpenAI">>}

\* a 401 on the first call has ended a generateReply that had retries left
C9_Witness ==
    \E r \in Reqs :
        /\ gen[r].state = "threw"
        /\ gen[r].retries = 2
        /\ Len(gen[r].sent) = 1
        /\ gen[r].log[1].error.status = 401
        /\ gen[r].error.statusCode = 401

\* the credential of provider p is absent, empty, blank or the placeholder
CredentialMissing(p, e) ==
    LET key == IF p = "groq" THEN e.GROQ_API_KEY ELSE e.OPENAI_API_KEY
        placeholder == IF p = "groq" THEN <<"your-groq-api-key-here">>
                       ELSE <<"your-openai-api-key-here">>
    IN  \/ key = Unset
        \/ \A i \in DOMAIN key : key[i] = " "
        \/ key = placeholder

\* C10: with the active provider's credential missing generateReply fails with
\* no provider call made; the credential is checked once, before the first
\* call, and not again between retries.
C10_CredentialCheckedFirst ==
    \A r \in Reqs :
        gen[r].state # "none"
        => /\ gen[r].validations <= 1
           /\ gen[r].sent # <<>> => gen[r].validations = 1
           /\ (provider \in {"groq", "openai"} /\ CredentialMissing(provider, env))
                 => /\ gen[r].state = "threw"
                    /\ gen[r].sent = <<>>
                    /\ gen[r].log = <<>>
                    /\ gen[r].validations = 1

\* generateReply has failed on a groq key of white space only
C10_Witness ==
    \E r \in Reqs :
        /\ provider = "groq"
        /\ env = [GROQ_API_KEY |-> <<" ">>, OPENAI_API_KEY |-> Unset]
        /\ gen[r].state = "threw"
        /\ gen[r].sent = <<>>

\* C11: for every retries >= 0 and every sequence of provider outcomes,
\* generateReply returns the text of a provider call that succeeded or it fails;
\* a text it returns is never empty, undefined or made up, and when every
\* attempt is rate limited it fails after exactly retries+1 provider calls with
\* a failure that is set.
C11_ReturnsProviderTextOrFails ==
    \A r \in Reqs :
        LET g == gen[r]
            n == Len(g.log)
        IN  /\ g.state = "returned"
               => /\ n >= 1
                  /\ Succeeded(g.log[n])
                  /\ g.result = Trim(g.log[n].content)
                  /\ g.result # <<>>
                  /\ g.result # Unset
            /\ (n = g.retries + 1 /\ \A i \in 1..n : RateLimited(g.log[i]))
               => /\ g.state = "threw"
                  /\ Len(g.sent) = g.retries + 1
                  /\ g.error # NoError

-----------------------------------------------------------------------------
(* Properties of GET /chat/history/:sessionId and of the store *)

\* the GET request in progress asks for an id that matches no conversation
ReadsUnknown == reads.pc # "idle" /\ reads.sessionId \notin conversations

C13_HistoryInCreationOrder ==
    [][(reads.pc = "findMany" /\ reads'.pc = "done" /\ reads'.response.status = 200)
       => reads'.response.messages = HistoryBody(MessagesOf(reads.sessionId))]_vars

\* the history a provider call of slot r should carry: the rows the store
\* holds for the request's conversation, the request's own user message aside
StoredHistory(r) ==
    LET own == effects[r].saved[1]
        places == {i \in PlacesOf(conversation[r].id) : i # own}
        rows == SelectSeq([i \in DOMAIN messages |-> [place |-> i, row |-> messages[i]]],
                          LAMBDA e : e.place \in places)
    IN  [i \in DOMAIN rows |-> [sender |-> rows[i].row.sender, text |-> rows[i].row.text]]

\* C14: for every request, overlapping ones on one conversation included, the
\* history entries of the prompt sent to the provider are the last
\* MAX_CONTEXT_MESSAGES messages the conversation holds in the store when the
\* provider is called (the request's own user message aside), in stored order.
C14_PromptIsStoredHistory ==
    [][\A r \in Reqs :
          (pc'[r] = "generating" /\ Len(gen'[r].sent) > Len(gen[r].sent))
          => LET m == gen'[r].sent[Len(gen'[r].sent)].messages
                 h == StoredHistory(r)'
                 k == IF Len(h) < 10 THEN Len(h) ELSE 10
             IN  /\ Len(m) = k + 2
                 /\ \A i \in 1..k :
                       m[i + 1] = [role |-> IF h[Len(h) - k + i].sender = "user"
                                             THEN "user" ELSE "assistant",
                                   content |-> h[Len(h) - k + i].text]]_vars

-----------------------------------------------------------------------------
(* Properties of POST /chat/message when the store fails *)

\* the provider answered the request of slot r and saving the reply rejected
AiSaveFailed(r) ==
    /\ Answered(r)
    /\ effects[r].storeFailed
    /\ gen[r].state = "returned"

\* the request of slot r has no ai row in the store
ReplyNotRecorded(r) ==
    \A i \in 1..Len(effects[r].saved) : messages[effects[r].saved[i]].sender # "ai"

\* C15, as claimed: if persisting the ai message fails after the provider has
\* succeeded, the reply is still returned to the caller, and it is not recorded
\* in the store.
C15_ReplyReturnedThoughNotSaved ==
    \A r \in Reqs :
        AiSaveFailed(r)
        => /\ response[r].reply = gen[r].result
           /\ ReplyNotRecorded(r)

\* C15, amended: if persisting the ai message fails after the provider has
\* succeeded, the caller gets HTTP 500 with the generic failure body, whose
\* reply is the fixed technical-difficulties text and not the provider's
\* reply, and the reply is not recorded in the store.
C15_ReplyLostWhenNotSaved ==
    \A r \in Reqs :
        AiSaveFailed(r)
        => /\ response[r] = ServerError
           /\ response[r].reply # gen[r].result
           /\ ReplyNotRecorded(r)

\* the provider's reply "ok" was lost to a failed save of a request that had
\* created its conversation and saved its user message
C15_Witness ==
    \E r \in Reqs :
        /\ AiSaveFailed(r)
        /\ gen[r].result = <<"o", "k">>
        /\ response[r].status = 500
        /\ effects[r].created = 1
        /\ Len(effects[r].saved) = 1

\* C16: if any store operation of POST /chat/message fails, the response is
\* HTTP 500 with the generic failure body, and what the request persisted
\* before the failure (a new conversation, the user message) stays persisted.
C16_StoreFailureGets500 ==
    \A r \in Reqs :
        (Present(r) /\ effects[r].storeFailed)
        => /\ Answered(r)
           /\ response[r] = ServerError
           /\ effects[r].created = 1 => conversation[r].id \in conversations
           /\ \A i \in 1..Len(effects[r].saved) :
                 /\ effects[r].saved[i] \in DOMAIN messages
                 /\ messages[effects[r].saved[i]].conversationId = conversation[r].id
                 /\ messages[effects[r].saved[i]].sender = "user"
                 /\ messages[effects[r].saved[i]].text = Trim(request[r].message.value)

\* saving the fallback reply of a request failed: its new conversation and its
\* user message are in the store, the answer is 500
C16_Witness ==
    \E r \in Reqs :
        /\ Answered(r) /\ effects[r].storeFailed
        /\ gen[r].state = "threw"
        /\ response[r].status = 500
        /\ effects[r].created = 1
        /\ conversation[r].id \in conversations
        /\ Len(effects[r].saved) = 1
        /\ messages[effects[r].saved[1]].sender = "user"

-----------------------------------------------------------------------------
(* Properties of POST /chat/message about the session id *)

\* C17: a POST /chat/message that carries a malformed session id is answered
\* 400 and has no side effects: no Conversation or Message is created and the
\* provider is not called. (Stated for requests that pass the limiter with a
\* valid message and meet no store failure.)
C17_MalformedSessionIdGets400 ==
    \A r \in Reqs :
        (/\ Answered(r)
         /\ request[r].sessionId = MalformedSid
         /\ PassedLimiter(r)
         /\ IsValidBody(request[r].message)
         /\ ~effects[r].storeFailed)
        => /\ response[r].status = 400
           /\ NoSideEffects(r)

\* the session id of slot r's request is absent or matches no conversation
Unrecognised(r) ==
    request[r].sessionId = NoSid \/ request[r].sessionId \notin conversations

-----------------------------------------------------------------------------
(* Properties of the failures of generateReply *)

\* generateReply of slot r has thrown what a provider call failed with
PropagatedProviderFailure(r) == gen[r].state = "threw" /\ gen[r].log # <<>>

\* the status an error carries in status, statusCode or response.status
CodeOf(e) ==
    IF e.status # 0 THEN e.status
    ELSE IF e.statusCode # 0 THEN e.statusCode
    ELSE e.responseStatus

\* C19, as claimed: when generateReply propagates a provider failure, the
\* failure it hands to the caller carries the provider name and the number of
\* attempts made.
C19_FailureCarriesProviderAndAttempts ==
    \A r \in Reqs :
        PropagatedProviderFailure(r)
        => /\ "provider" \in DOMAIN gen[r].error
           /\ "attempt" \in DOMAIN gen[r].error

\* C19, amended: when generateReply propagates a provider failure, the failure
\* it hands to the caller is the provider client's own failure, with status and
\* statusCode set to its status code when it has one; the provider name and the
\* number of attempts made are written to the error log only.
C19_FailureCarriesStatusOnly ==
    \A r \in Reqs :
        PropagatedProviderFailure(r)
        => LET g == gen[r]
               last == g.log[Len(g.log)]
               code == IF last.ok THEN 0 ELSE CodeOf(last.error)
           IN  /\ DOMAIN g.error = {"message", "status", "statusCode", "responseStatus"}
               /\ ~last.ok => /\ g.error.message = last.error.message
                              /\ g.error.responseStatus = last.error.responseStatus
               /\ last.ok => g.error.message \in
                      {<<"No response from Groq">>, <<"No response from OpenAI">>}
               /\ code # 0 => (g.error.status = code /\ g.error.statusCode = code)
               /\ code = 0 => (g.error.status = 0 /\ g.error.statusCode = 0)
               /\ Len(g.console) = 1
               /\ g.console[1].provider = provider
               /\ g.console[1].attempt = Len(g.sent)

\* three calls were rate limited, the last with its status in response.status
\* only: the failure thrown has status and statusCode 429, the log says groq,
\* attempt 3
C19_Witness ==
    \E r \in Reqs :
        /\ PropagatedProviderFailure(r)
        /\ Len(gen[r].sent) = 3
        /\ gen[r].log[3].error = Err(<<"Too Many Requests">>, 0, 0, 429)
        /\ gen[r].error = Err(<<"Too Many Requests">>, 429, 429, 429)
        /\ gen[r].console = <<[message |-> <<"Too Many Requests">>, status |-> 429,
                               attempt |-> 3, provider |-> "groq"]>>

\* C20: when the configured provider is neither groq nor openai, generateReply
\* fails with the unsupported-provider failure before any credential check and
\* before any provider call; no provider client is ever called.
C20_UnsupportedProviderFailsFirst ==
    \A r \in Reqs :
        (provider \notin {"groq", "openai"} /\ gen[r].state # "none")
        => /\ gen[r].state = "threw"
           /\ gen[r].error.message =
                 <<"Unsupported LLM provider: ", provider,
                   ". Supported providers: groq, openai">>
           /\ gen[r].validations = 0
           /\ gen[r].sent = <<>>
           /\ gen[r].log = <<>>
           /\ gen[r].waits = <<>>

\* with LLM_PROVIDER=claude and a working OpenAI key, generateReply called
\* with a history of 11 entries has failed
C20_Witness ==
    \E r \in Reqs :
        /\ provider = "claude"
        /\ env.OPENAI_API_KEY = ValidKey
        /\ Len(gen[r].history) = 11
        /\ gen[r].state = "threw"
        /\ gen[r].sent = <<>>

-----------------------------------------------------------------------------
(* Properties of the persisted messages *)

\* C21: across every sequence and interleaving of POST /chat/message and GET
\* /chat/history requests, persisted messages are append-only: a Message that
\* exists keeps its conversation, sender, text and creation time and is never
\* removed.
C21_MessagesAppendOnly ==
    [][\A i \in DOMAIN messages :
          /\ i \in DOMAIN messages'
          /\ messages'[i] = messages[i]]_vars

\* a history of two messages has been returned while a later request on the
\* same conversation added to it
C21_Witness ==
    /\ reads.pc = "done"
    /\ reads.response.status = 200
    /\ Len(reads.response.messages) = 2
    /\ Len(MessagesOf(reads.sessionId)) = 4

\* C22: in every reachable state every persisted Message belongs to a
\* Conversation that exists in the store; no sequence of requests, failing
\* ones included, leaves a Message without its Conversation.
C22_NoOrphanMessages ==
    \A i \in DOMAIN messages : messages[i].conversationId \in conversations

\* a request with a malformed session id failed on saving its reply: its user
\* message is in the store, in the conversation the request created
C22_Witness ==
    \E r \in Reqs :
        /\ Answered(r) /\ effects[r].storeFailed
        /\ request[r].sessionId = MalformedSid
        /\ Len(effects[r].saved) = 1
        /\ messages[effects[r].saved[1]].conversationId \in conversations

\* C24: in every POST /chat/message that reaches the provider the user message
\* is persisted before the first provider call, and the ai message is persisted
\* only after generateReply has returned or failed; in stored order a request's
\* user message precedes its own ai message, also when the provider fails.
C24_UserSavedBeforeCallAiAfter ==
    \A r \in Reqs :
        /\ gen[r].sent # <<>>
           => /\ Len(effects[r].saved) >= 1
              /\ messages[effects[r].saved[1]].sender = "user"
              /\ messages[effects[r].saved[1]].text = gen[r].userMessage
        /\ Len(effects[r].saved) = 2
           => /\ gen[r].state \in {"returned", "threw"}
              /\ effects[r].saved[1] < effects[r].saved[2]
              /\ messages[effects[r].saved[1]].sender = "user"
              /\ messages[effects[r].saved[2]].sender = "ai"
              /\ messages[effects[r].saved[1]].createdAt
                    <= messages[effects[r].saved[2]].createdAt
              /\ gen[r].sent # <<>> /\ ~effects[r].rowSinceCall
                 => messages[effects[r].saved[1]].createdAt
                       < messages[effects[r].saved[2]].createdAt
        /\ Len(effects[r].saved) <= 2

\* the fallback of a request whose three provider calls were rate limited has
\* been saved after its user message
C24_Witness ==
    \E r \in Reqs :
        /\ Len(effects[r].saved) = 2
        /\ gen[r].state = "threw"
        /\ Len(gen[r].sent) = 3
        /\ messages[effects[r].saved[2]].text = TrafficFallback

\* C25: every message list that generateReply passes to a provider client has
\* the system instruction as its first and only system entry and the new user
\* message, with role user, as its last entry, holds between 2 and
\* MAX_CONTEXT_MESSAGES + 2 entries, and is the same list on every retry
\* attempt of one call.
C25_PromptShape ==
    \A r \in Reqs :
        \A k \in DOMAIN gen[r].sent :
            LET m == gen[r].sent[k].messages
            IN  /\ Len(m) >= 2
                /\ Len(m) <= MAX_CONTEXT_MESSAGES + 2
                /\ m[1] = [role |-> "system", content |-> SYSTEM_PROMPT]
                /\ \A i \in 2..Len(m) : m[i].role \in {"user", "assistant"}
                /\ m[Len(m)] = [role |-> "user", content |-> gen[r].userMessage]
                /\ m = gen[r].sent[1].messages

\* a third attempt has been sent for a history longer than the context window
\* that holds entries of sender system
C25_Witness ==
    /\ Len(gen[1].sent) = 3
    /\ Len(gen[1].history) > MAX_CONTEXT_MESSAGES
    /\ \E i \in DOMAIN gen[1].history :
          /\ i > Len(gen[1].history) - MAX_CONTEXT_MESSAGES
          /\ gen[1].history[i].sender = "system"
    /\ Len(gen[1].sent[3].messages) = MAX_CONTEXT_MESSAGES + 2

\* C28: every POST /chat/message answered with HTTP 200 appends exactly two
\* messages, first one with sender user holding the trimmed request message and
\* then one with sender ai holding exactly the returned reply, both to the
\* conversation whose id is returned as sessionId; it changes no other
\* conversation and no earlier message.  As steps: the step that answers 200
\* is the request's second append, and every step that changes the messages
\* appends one row to the conversation of the request that takes it.
C28_OkAppendsItsTwoMessages ==
    [][/\ \A r \in Reqs :
             (response'[r].status = 200 /\ response[r].status # 200)
             => /\ Len(effects'[r].saved) = 2
                /\ LET u == effects'[r].saved[1]
                       a == effects'[r].saved[2]
                   IN  /\ u < a
                       /\ a = Len(messages')
                       /\ messages'[u].conversationId = response'[r].sessionId
                       /\ messages'[u].sender = "user"
                       /\ messages'[u].text = Trim(request[r].message.value)
                       /\ messages'[a].conversationId = response'[r].sessionId
                       /\ messages'[a].sender = "ai"
                       /\ messages'[a].text = response'[r].reply
                /\ response'[r].sessionId \in conversations'
       /\ messages' # messages
          => /\ Len(messages') = Len(messages) + 1
             /\ \A i \in DOMAIN messages : messages'[i] = messages[i]
             /\ \E r \in Reqs :
                   /\ pc[r] \in {"saveUser", "saveAi"}
                   /\ effects'[r].saved = Append(effects[r].saved, Len(messages'))
                   /\ messages'[Len(messages')].conversationId = conversation[r].id
                   /\ \A q \in Reqs \ {r} : effects'[q].saved = effects[q].saved
       /\ conversations' # conversations => messages' = messages]_vars

\* a request with blanks around its message has been answered 200 on its own
\* conversation while another conversation holds earlier messages
C28_Witness ==
    \E r \in Reqs :
        /\ Answered(r) /\ response[r].status = 200
        /\ request[r].message = Str(<<" ", "h", "i">>)
        /\ effects[r].saved = <<3, 4>>
        /\ messages[1].conversationId # response[r].sessionId

\* C29: when the requests of a session run one after another and no store
\* operation fails, then after every completed request the conversation's
\* messages in the order the store created them alternate user, ai, user, ai,
\* ... starting with user, and their number is twice the number of 200
\* responses given for that session.
C29_SequentialSessionAlternates ==
    (\A r \in Reqs : pc[r] \in {"idle", "done"})
    => \A id \in conversations :
           LET rows == MessagesOf(id)
           IN  /\ \A i \in DOMAIN rows :
                     rows[i].sender = IF i % 2 = 1 THEN "user" ELSE "ai"
               /\ Len(rows) = 2 * Count200(id)

\* a session of two completed exchanges, and a request refused with 400 after
\* them
C29_Witness ==
    /\ pc[1] = "done" /\ response[1].status = 400
    /\ \E id \in conversations : Count200(id) = 2 /\ Len(MessagesOf(id)) = 4

\* the ways to put the rows at the places P in a sequence
ArrangementsOf(P) ==
    { order \in [1..Cardinality(P) -> P] :
        \A i, j \in DOMAIN order : i # j => order[i] # order[j] }

\* C30: conversations are isolated: the history entries of a request's prompt
\* and the messages returned by GET /chat/history/:sessionId all belong to the
\* conversation named by that request, and no request made on another session
\* changes what they contain.
C30_ConversationsIsolated ==
    /\ [](\A r \in Reqs :
             /\ \A i \in DOMAIN conversation[r].messages :
                   /\ conversation[r].messages[i].conversationId = conversation[r].id
                   /\ conversation[r].id = request[r].sessionId
             /\ gen[r].state # "none" => gen[r].history = HistoryOf(conversation[r]))
    /\ [][/\ (reads.pc = "findMany" /\ reads'.response.status = 200)
             => \E order \in ArrangementsOf(PlacesOf(reads.sessionId)) :
                    reads'.response.messages = HistoryBody(RowsAt(order))
          /\ \A id \in conversations :
                MessagesOf(id)' # MessagesOf(id)
                => \E r \in Reqs :
                      /\ pc[r] \in {"saveUser", "saveAi"} /\ pc'[r] # pc[r]
                      /\ conversation[r].id = id
                      /\ request[r].sessionId = id \/ effects[r].created > 0]_vars

\* the history of one conversation has been read, and a request on it has
\* loaded the history for its prompt, while the other conversation holds
\* messages too
C30_Witness ==
    /\ reads.pc = "done" /\ reads.response.status = 200
    /\ Len(reads.response.messages) = 2
    /\ \E id \in conversations : id # reads.sessionId /\ Len(MessagesOf(id)) = 2
    /\ pc[1] = "saveUser"
    /\ conversation[1].id = reads.sessionId
    /\ Len(conversation[1].messages) = 2

-----------------------------------------------------------------------------
(* Properties of the start of the process *)

\* the provider that backend/.env names
NamedInDotenv == ResolveProvider(boot.dotenvFile)

ProviderResolvedOnceAtImport ==
    [][boot.pc \in {"llm", "listening"} => provider' = provider]_vars

-----------------------------------------------------------------------------
(* Properties of the browser page *)

\* the step is the end of a send of the open page: its response has arrived or
\* its fetch has failed
SendEnds == browser'.page = "open" /\ browser'.inFlight < browser.inFlight

\* C26: after the page receives a 200 response to a send, its sessionId (in
\* memory and in localStorage under chatSessionId) equals that response's
\* sessionId, and every later send carries it until another 200 response
\* replaces it; a non-OK response or a network error leaves the sessionId
\* unchanged.
C26_SessionIdFollowsOkResponses ==
    /\ [](browser.lastOk # NoSid
          => /\ browser.stored = browser.lastOk
             /\ browser.page = "open" => browser.sessionId = browser.lastOk
             /\ browser.inFlight > 0 => browser.body.sessionId = browser.lastOk)
    /\ [][/\ SendEnds /\ browser'.outcome = "ok"
             => /\ pc[1] = "done" /\ response[1].status = 200
                /\ browser'.sessionId = response[1].sessionId
                /\ browser'.stored = response[1].sessionId
                /\ browser'.lastOk = response[1].sessionId
          /\ SendEnds /\ browser'.outcome # "ok"
             => /\ browser'.outcome = "notOk"
                   => pc[1] = "done" /\ response[1].status \notin {0, 200}
                /\ browser'.sessionId = browser.sessionId
                /\ browser'.stored = browser.stored
                /\ browser'.lastOk = browser.lastOk
          /\ browser'.sends > browser.sends
             => browser'.body.sessionId = browser.sessionId]_vars

\* a 200 has given the page a session id, the page was reloaded since, and its
\* third send, the first entry on display, has reached the server with that id
C26_Witness ==
    /\ browser.lastOk \notin {NoSid, UnknownSid}
    /\ browser.sends = 3
    /\ browser.inFlight = 1
    /\ browser.body.sessionId = browser.lastOk
    /\ Len(browser.messages) = 1
    /\ pc[1] = "findUnique"

\* C27: the page never has two sends in flight: sendMessage does nothing while
\* loading is true or the trimmed input is empty, loading becomes true before
\* the request is sent, and loading is false again after every outcome of the
\* request (200, non-OK status, network error), each send adding exactly one
\* user entry and exactly one ai entry to the displayed messages.  The entries
\* are what the steps of sendMessage append; the history load of onMount, which
\* the input field does not wait for, may replace the list in between.
C27_OneSendAtATime ==
    /\ [](/\ browser.inFlight <= 1
          /\ browser.inFlight = 1 => browser.loading
          /\ browser.inFlight = 0 => ~browser.loading
          /\ pc[1] \in {"findUnique", "create", "saveUser", "generating", "saveAi"}
             /\ browser.inFlight = 1
             => request[1].message = Str(browser.body.message))
    /\ [][/\ browser'.sends > browser.sends
             => /\ ~browser.loading
                /\ Trim(browser.input) # <<>>
                /\ browser'.loading
                /\ browser'.inFlight = browser.inFlight + 1
                /\ browser'.messages =
                      Append(browser.messages,
                             [sender |-> "user", text |-> Trim(browser.input)])
          /\ SendEnds
             => /\ ~browser'.loading
                /\ Len(browser'.messages) = Len(browser.messages) + 1
                /\ SubSeq(browser'.messages, 1, Len(browser.messages)) = browser.messages
                /\ browser'.messages[Len(browser'.messages)].sender = "ai"
          /\ browser'.messages # browser.messages /\ browser.inFlight = browser'.inFlight
             => browser.historyInFlight \/ browser.page # browser'.page]_vars

\* three sends have ended, one with a reply, one with a non-OK response and
\* one with a network error
C27_Witness ==
    /\ browser.sends = 3
    /\ browser.outcome = "network"
    /\ ~browser.loading
    /\ Len(browser.messages) = 7
    /\ browser.messages[3].text = <<"o", "k">>
    /\ browser.messages[5].text = Trouble

====
